---- MODULE Spec2Model ----
(***************************************************************************)
(* simpleice: the ICE record (src/src/parser.rs), the JSON store behind    *)
(* get_ices / write_ices, and the commands of src/src/commands.rs.         *)
(*                                                                         *)
(* Time is counted in whole minutes.  A date typed by the user has minute  *)
(* resolution ("%F %R"), so comparing it with Local::now() gives the same  *)
(* answer as comparing it with the minute Local::now() falls in.           *)
(*                                                                         *)
(* In Spec, SpecContent and SpecDelivery the file system never fails; in   *)
(* SpecFaults it can refuse an open, a create or a write at any time.      *)
(***************************************************************************)
EXTENDS Naturals, Sequences, FiniteSets, TLC

\* ------------------------------------------------------------- bounds
\* The largest collection the create command is let grow to.
MaxIces == 2
\* The last minute the clock reaches.
MaxClock == 1

\* ------------------------------------------------------------- inputs
\* What the user can type at Input::new("Please specify a short description").
Descriptions == {"Will", "Keys"}
\* What the editor can hand back as the message.
Messages == {"Find my safe"}
\* Option<T>: None is the empty sequence, Some(v) the one-element sequence.
None == <<>>
Some(v) == <<v>>
is_some(o) == o # None
is_none(o) == o = None
unwrap(o) == o[1]

\* Text typed at the recipients prompt, as its sequence of characters; "a" and
\* "b" stand for one address each.
TypedEmails == { <<"a", ",", " ", "b">> }

\* The text of minute m in the format "%F %R" (yyyy-mm-dd HH:MM).
DateText(m) == <<"%F %R", m>>
\* A text that does not match "%F %R".
Malformed == <<"next week">>
\* What the user can type at the date prompt.
DateStrings == { DateText(m) : m \in 0..(MaxClock + 1) } \cup { Malformed }

\* ------------------------------------------------------------- Ice
\* Mutant of Ice::new: the two texts swapped.
Ice_new_swapped(description, message) ==
    [ description |-> message,
      message     |-> description,
      emails      |-> <<>>,
      active      |-> FALSE,
      send_date   |-> None ]

Ice_new(description, message) ==
    [ description |-> description,
      message     |-> message,
      emails      |-> <<>>,
      active      |-> FALSE,
      send_date   |-> None ]

get_description(ice) == ice.description

\* Mutant of set_description: builds the record afresh.
set_description_fresh(ice, description) == Ice_new(description, ice.message)

set_description(ice, description) == [ice EXCEPT !.description = description]

get_date(ice) ==
    IF is_some(ice.send_date) THEN DateText(unwrap(ice.send_date))
                              ELSE <<"Unknown">>

\* Mutants of set_date: one that assigns only a date that is present, one that
\* does not override a date already in place.
set_date_some_only(ice, new_date) ==
    IF is_some(new_date)
    THEN [ice EXCEPT !.send_date = new_date]
    ELSE ice

set_date_if_unset(ice, new_date) ==
    IF is_some(ice.send_date) /\ is_some(new_date)
    THEN ice
    ELSE [ice EXCEPT !.send_date = new_date]

set_date(ice, new_date) == [ice EXCEPT !.send_date = new_date]

get_emails(ice) == ice.emails

set_emails(ice, emails) == [ice EXCEPT !.emails = emails]

get_message(ice) == ice.message

set_message(ice, message) == [ice EXCEPT !.message = message]

\* Mutant of get_status: the flag negated.
get_status_negated(ice) == ~ice.active

get_status(ice) == ice.active

\* Mutants of set_status: one that forgets the assignment, one that also
\* clears the date when the status is false.
set_status_keep(ice, status) == ice

set_status_disarm(ice, status) ==
    IF status
    THEN [ice EXCEPT !.active = TRUE]
    ELSE [ice EXCEPT !.active = FALSE, !.send_date = None]

set_status(ice, status) == [ice EXCEPT !.active = status]

\* Mutant of get_status_line: the date segment is there whatever the status.
get_status_line_dated(ice) ==
    << ice.description, " ~> ",
       IF ice.active THEN "Active" ELSE "Inactive",
       get_date(ice) >>

get_status_line(ice) ==
    << ice.description, " ~> ",
       IF ice.active THEN "Active" ELSE "Inactive",
       IF ice.active THEN get_date(ice) ELSE <<>> >>

\* ------------------------------------------------------------- store
\* serde_json's image of one Ice: the struct's fields in declaration order,
\* send_date as null or as the timestamp's RFC 3339 text.
JsonNull == <<"null">>

\* Mutant of to_json: the timestamp is written in a zone one minute ahead of
\* the one it is read in.
to_json_other_zone(ice) ==
    << ice.description, ice.message, ice.emails, ice.active,
       IF is_some(ice.send_date)
       THEN <<"rfc3339", unwrap(ice.send_date) + 1>>
       ELSE JsonNull >>

to_json(ice) ==
    << ice.description, ice.message, ice.emails, ice.active,
       IF is_some(ice.send_date)
       THEN <<"rfc3339", unwrap(ice.send_date)>>
       ELSE JsonNull >>

\* Mutant of from_json: the recipients are not read, the list starts empty.
from_json_no_emails(j) ==
    [ description |-> j[1],
      message     |-> j[2],
      emails      |-> <<>>,
      active      |-> j[4],
      send_date   |-> IF j[5] = JsonNull THEN None ELSE Some(j[5][2]) ]

from_json(j) ==
    [ description |-> j[1],
      message     |-> j[2],
      emails      |-> j[3],
      active      |-> j[4],
      send_date   |-> IF j[5] = JsonNull THEN None ELSE Some(j[5][2]) ]

\* The file at the configured path: absent, or holding text.  valid tells
\* whether the text is a JSON array of Ice objects, json is that array.
NoFile == [exists |-> FALSE, valid |-> TRUE, json |-> <<>>]

\* What File::create leaves when to_writer does not complete: the file cut to
\* nothing, or holding a beginning of the new text; neither parses.
Truncated == [exists |-> TRUE, valid |-> FALSE, json |-> <<>>]

\* write_ices when File::create and to_writer both succeed: the file holds
\* the whole array.
write_ices(list) ==
    [exists |-> TRUE, valid |-> TRUE,
     json |-> [i \in 1..Len(list) |-> to_json(list[i])]]

\* ------------------------------------------------------------- state
VARIABLES
    env,        \* what the file system allows: can_open, can_create, can_write
    sent,       \* the mails handed to delivery, <<description, send_date>>
    other,      \* a second invocation between its load and its save: the
                \* collection it loaded, as Option
    file,       \* the JSON file at the configured path
    clock,      \* the minute Local::now() falls in
    pc,         \* "idle", or "activate": activate_ice waiting at its date prompt
    ices,       \* activate_ice: the loaded collection
    selected,   \* activate_ice: the selected index (1-based; 0 when idle)
    edited,     \* activate_ice: the clone of ices[selected]
    today,      \* activate_ice: Local::now() as read before the loop
    out,        \* the last line written to the terminal
    wrote,      \* whether the last command step called write_ices
    subject,    \* Ice mutators on their own: the record
    before,     \* Ice mutators on their own: the record before the last call
    called      \* Ice mutators on their own: the last call, <<name, argument>>

cmdVars == <<file, clock, pc, ices, selected, edited, today, out, wrote>>
iceVars == <<subject, before, called>>
worldVars == <<env, sent, other>>
vars == <<file, clock, pc, ices, selected, edited, today, out, wrote,
          subject, before, called, env, sent, other>>

\* A file system on which every open, create and write succeeds.
Sound == [can_open |-> TRUE, can_create |-> TRUE, can_write |-> TRUE]

\* get_ices: Err when the path does not exist; File::open(..).unwrap() and
\* from_reader(..).unwrap() panic when the file cannot be opened or its text
\* does not parse; else the parsed array.
get_ices(f) ==
    IF ~f.exists
    THEN [ok |-> FALSE, panic |-> FALSE, v |-> <<>>,
          e |-> "JSON file does not exist"]
    ELSE IF ~env.can_open \/ ~f.valid
    THEN [ok |-> FALSE, panic |-> TRUE, v |-> <<>>, e |-> ""]
    ELSE [ok |-> TRUE, panic |-> FALSE,
          v  |-> [i \in 1..Len(f.json) |-> from_json(f.json[i])],
          e  |-> ""]

NoIce == Ice_new("", "")
NoCall == <<"none">>

Line(s) == <<s>>

\* Mutant of Returned: the command stays where it is, its locals kept.
Returned_not ==
    /\ pc' = pc
    /\ ices' = ices
    /\ selected' = selected
    /\ edited' = edited
    /\ today' = today

\* The locals of a command that has returned.
Returned ==
    /\ pc' = "idle"
    /\ ices' = <<>>
    /\ selected' = 0
    /\ edited' = NoIce
    /\ today' = 0

Init ==
    /\ file \in { NoFile, write_ices(<<>>) }
    /\ clock = 0
    /\ pc = "idle"
    /\ ices = <<>>
    /\ selected = 0
    /\ edited = NoIce
    /\ today = 0
    /\ out = Line("")
    /\ wrote = FALSE
    /\ env = Sound
    /\ sent = {}
    /\ other = None
    /\ subject = NoIce
    /\ before = NoIce
    /\ called = NoCall

\* A minute passes.
Tick ==
    /\ clock < MaxClock
    /\ clock' = clock + 1
    /\ UNCHANGED <<file, pc, ices, selected, edited, today, out, wrote>>
    /\ UNCHANGED <<iceVars, worldVars>>

\* Mutant of EndsWith: saves what was loaded on the way out.
EndsWithSave(line) ==
    /\ out' = line
    /\ wrote' = TRUE
    /\ Returned
    /\ file' = write_ices(get_ices(file).v)

\* A command that ends at once with one line and no write.
EndsWith(line) ==
    /\ out' = line
    /\ wrote' = FALSE
    /\ UNCHANGED file
    /\ Returned

\* The process dies in an unwrap(): a panic message, no return value.
PanicLine == Line("thread 'main' panicked")

Panics(saving) ==
    /\ out' = PanicLine
    /\ wrote' = saving
    /\ UNCHANGED file
    /\ Returned

\* Mutant of Saves: an invocation that finds the file changed since its load
\* reports that and does not write.
Saves_unless_changed(list, line) ==
    IF pc = "activate" /\ write_ices(ices) # file THEN
        EndsWith(<<"Error: ", "store changed">>)
    ELSE
        /\ out' = line
        /\ wrote' = TRUE
        /\ Returned
        /\ file' = write_ices(list)

\* A command that saves the collection and reports it: File::create(..)
\* .unwrap() panics when the file cannot be created; to_writer's Err is
\* reported, with the file already cut by File::create.
Saves(list, line) ==
    IF ~env.can_create THEN
        Panics(TRUE)
    ELSE
        /\ out' = IF env.can_write THEN line ELSE <<"Error: ", "io error">>
        /\ wrote' = TRUE
        /\ Returned
        /\ file' = IF env.can_write THEN write_ices(list) ELSE Truncated

\* Mutant of replace: the record goes to the head of the collection.
replace_first(list, sel, ice) == [list EXCEPT ![1] = ice]

\* ices[selected] = edited.
replace(list, sel, ice) == [list EXCEPT ![sel] = ice]

\* ------------------------------------------------------------- commands
\* activate_ice up to its first date prompt: load, select, read the clock.
activate_ice(sel) ==
    /\ pc = "idle"
    /\ LET got == get_ices(file) IN
       IF got.panic THEN
           Panics(FALSE)
       ELSE IF ~got.ok THEN
           EndsWith(<<"Error: ", got.e>>)
       ELSE IF got.v = <<>> THEN
           EndsWith(Line("No ICE mails to show"))
       ELSE
           /\ sel \in 1..Len(got.v)
           /\ pc' = "activate"
           /\ ices' = got.v
           /\ selected' = sel
           /\ edited' = got.v[sel]
           /\ today' = clock
           /\ out' = Line("Please specify the date and time (yyyy-mm-dd HH:MM)")
           /\ wrote' = FALSE
           /\ UNCHANGED file
    /\ UNCHANGED clock
    /\ UNCHANGED <<iceVars, worldVars>>

\* Mutant of datetime_from_str: a text out of format is read as minute 0.
datetime_from_str_lenient(s) ==
    IF Len(s) = 2 /\ s[1] = "%F %R"
    THEN [ok |-> TRUE, v |-> s[2]]
    ELSE [ok |-> TRUE, v |-> 0]

\* Local.datetime_from_str(s, "%F %R").
datetime_from_str(s) ==
    IF Len(s) = 2 /\ s[1] = "%F %R"
    THEN [ok |-> TRUE, v |-> s[2]]
    ELSE [ok |-> FALSE, v |-> 0]

\* Mutant of date_is_valid: any parsed date passes.
date_is_valid_always(v, start) == TRUE

\* Mutant of date_is_valid: the start minute itself passes.
date_is_valid_or_equal(v, start) == v >= start

\* The check of a parsed date in the loop of activate_ice.
date_is_valid(v, start) == v > start

\* One turn of the loop of activate_ice: the user answers the date prompt.
activate_date(date_string) ==
    /\ pc = "activate"
    /\ LET parsed == datetime_from_str(date_string) IN
       IF ~parsed.ok THEN
           /\ out' = Line("Invalid date format, try again")
           /\ wrote' = FALSE
           /\ UNCHANGED <<file, pc, ices, selected, edited, today>>
       ELSE IF ~date_is_valid(parsed.v, today) THEN
           /\ out' = Line("Date cannot be in the past")
           /\ wrote' = FALSE
           /\ UNCHANGED <<file, pc, ices, selected, edited, today>>
       ELSE
           LET updated == set_status(set_date(edited, Some(parsed.v)), TRUE) IN
           Saves(replace(ices, selected, updated),
                 Line("ICE mail activated"))
    /\ UNCHANGED clock
    /\ UNCHANGED <<iceVars, worldVars>>

\* create_ice.
create_ice(description, message) ==
    /\ pc = "idle"
    /\ IF is_none(message) THEN
           EndsWith(Line("You need to specify a message. Aborting..."))
       ELSE
           LET new_ice == Ice_new(description, unwrap(message))
               got     == get_ices(file)
               loaded  == IF got.ok THEN got.v ELSE <<>>
           IN  IF got.panic THEN
                   Panics(FALSE)
               ELSE
                   /\ Len(loaded) < MaxIces
                   /\ Saves(Append(loaded, new_ice),
                            Line("New ICE mail created"))
    /\ UNCHANGED clock
    /\ UNCHANGED <<iceVars, worldVars>>

\* deactivate_ice.
deactivate_ice(sel, confirmed) ==
    /\ pc = "idle"
    /\ LET got == get_ices(file) IN
       IF got.panic THEN
           Panics(FALSE)
       ELSE IF ~got.ok THEN
           EndsWith(<<"Error: ", got.e>>)
       ELSE IF got.v = <<>> THEN
           EndsWith(Line("No ICE mails to show"))
       ELSE
           /\ sel \in 1..Len(got.v)
           /\ IF ~get_status(got.v[sel]) THEN
                  EndsWith(Line("That ICE mail is not active"))
              ELSE IF ~confirmed THEN
                  EndsWith(Line("Operation cancelled"))
              ELSE
                  LET updated == set_status(set_date(got.v[sel], None), FALSE) IN
                  Saves(replace(got.v, sel, updated),
                        Line("ICE mail deactivated"))
    /\ UNCHANGED clock
    /\ UNCHANGED <<iceVars, worldVars>>

\* str::join(","): the texts with a comma between each two.
RECURSIVE join(_)
join(list) ==
    IF list = <<>> THEN <<>>
    ELSE IF Len(list) = 1 THEN list[1]
    ELSE list[1] \o <<",">> \o join(Tail(list))

\* str::split(","): the pieces between the commas, at least one.
RECURSIVE split(_)
split(s) ==
    IF \A i \in 1..Len(s) : s[i] # ","
    THEN <<s>>
    ELSE LET i == CHOOSE k \in 1..Len(s) :
                      s[k] = "," /\ \A m \in 1..(k - 1) : s[m] # ","
         IN  <<SubSeq(s, 1, i - 1)>> \o split(SubSeq(s, i + 1, Len(s)))

\* str::trim(): without the blanks at either end.
RECURSIVE trim(_)
trim(s) ==
    IF s = <<>> THEN s
    ELSE IF Head(s) = " " THEN trim(Tail(s))
    ELSE IF s[Len(s)] = " " THEN trim(SubSeq(s, 1, Len(s) - 1))
    ELSE s

\* The recipients edit_ice makes of the text typed at its prompt.
email_list(new_emails) ==
    LET parts == split(new_emails) IN
    [i \in 1..Len(parts) |-> trim(parts[i])]

\* edit_ice: the three questions, then the save.  An answer is None when the
\* question is declined, else Some of what the prompt returned: the typed
\* description; the editor's Option<String>; for the recipients None when the
\* offered default is accepted, else Some of the typed text.
edit_ice(sel, description_answer, message_answer, emails_answer) ==
    /\ pc = "idle"
    /\ LET got == get_ices(file) IN
       IF got.panic THEN
           Panics(FALSE)
       ELSE IF ~got.ok THEN
           EndsWith(<<"Error: ", got.e>>)
       ELSE IF got.v = <<>> THEN
           EndsWith(Line("No ICE mails to show"))
       ELSE
           /\ sel \in 1..Len(got.v)
           /\ LET e0 == got.v[sel]
                  e1 == IF is_some(description_answer)
                        THEN set_description(e0, unwrap(description_answer))
                        ELSE e0
                  e2 == IF is_some(message_answer)
                           /\ is_some(unwrap(message_answer))
                        THEN set_message(e1, unwrap(unwrap(message_answer)))
                        ELSE e1
                  new_emails == IF is_some(emails_answer)
                                   /\ is_some(unwrap(emails_answer))
                                THEN unwrap(unwrap(emails_answer))
                                ELSE join(get_emails(e2))
                  e3 == IF is_some(emails_answer)
                        THEN set_emails(e2, email_list(new_emails))
                        ELSE e2
              IN  Saves(replace(got.v, sel, e3), Line("ICE mail updated"))
    /\ UNCHANGED clock
    /\ UNCHANGED <<iceVars, worldVars>>

\* list_ices.
list_ices ==
    /\ pc = "idle"
    /\ LET got == get_ices(file) IN
       IF got.panic THEN
           Panics(FALSE)
       ELSE IF ~got.ok THEN
           EndsWith(<<"Error: ", got.e>>)
       ELSE IF got.v = <<>> THEN
           EndsWith(Line("No ICE mails to show"))
       ELSE
           EndsWith(get_status_line(got.v[Len(got.v)]))
    /\ UNCHANGED clock
    /\ UNCHANGED <<iceVars, worldVars>>

\* Mutant of remove: the last record goes, as with Vec::pop.
remove_last(list, sel) == [i \in 1..(Len(list) - 1) |-> list[i]]

\* Vec::remove(selected) (1-based here): the rest, in order.
remove(list, sel) ==
    [i \in 1..(Len(list) - 1) |-> IF i < sel THEN list[i] ELSE list[i + 1]]

\* remove_ice.
remove_ice(sel, confirmed) ==
    /\ pc = "idle"
    /\ LET got == get_ices(file) IN
       IF got.panic THEN
           Panics(FALSE)
       ELSE IF ~got.ok THEN
           EndsWith(<<"Error: ", got.e>>)
       ELSE IF got.v = <<>> THEN
           EndsWith(Line("No ICE mails to show"))
       ELSE
           /\ sel \in 1..Len(got.v)
           /\ IF ~confirmed THEN
                  EndsWith(Line("Operation cancelled"))
              ELSE
                  Saves(remove(got.v, sel),
                        <<"ICE mail '", get_description(got.v[sel]), "' removed">>)
    /\ UNCHANGED clock
    /\ UNCHANGED <<iceVars, worldVars>>

\* show_ice.
show_ice(sel) ==
    /\ pc = "idle"
    /\ LET got == get_ices(file) IN
       IF got.panic THEN
           Panics(FALSE)
       ELSE IF ~got.ok THEN
           EndsWith(<<"Error: ", got.e>>)
       ELSE IF got.v = <<>> THEN
           EndsWith(Line("No ICE mails to show"))
       ELSE
           /\ sel \in 1..Len(got.v)
           /\ EndsWith(Line(get_message(got.v[sel])))
    /\ UNCHANGED clock
    /\ UNCHANGED <<iceVars, worldVars>>

\* The index a selection prompt can return; with nothing to select from the
\* commands return before asking.
Selections == 1..MaxIces

\* Option<x> over a set.
Option(S) == {None} \cup {Some(x) : x \in S}

\* ------------------------------------------------------------- specifications
\* Spec: the commands with the clock running.  The recipients question of
\* edit_ice is declined throughout.
Next ==
    \/ Tick
    \/ \E sel \in Selections : activate_ice(sel)
    \/ \E s \in DateStrings : activate_date(s)
    \/ \E d \in Descriptions, m \in Option(Messages) : create_ice(d, m)
    \/ \E sel \in Selections, c \in BOOLEAN : deactivate_ice(sel, c)
    \/ \E sel \in Selections, d \in Option(Descriptions),
          m \in Option(Option(Messages)) : edit_ice(sel, d, m, None)
    \/ list_ices
    \/ \E sel \in Selections, c \in BOOLEAN : remove_ice(sel, c)
    \/ \E sel \in Selections : show_ice(sel)

Spec == Init /\ [][Next]_vars

\* SpecContent: the commands within one minute (the clock stands still), with
\* every question of edit_ice answered either way.
ContentDateStrings == { DateText(0), DateText(1), Malformed }

NextContent ==
    \/ \E sel \in Selections : activate_ice(sel)
    \/ \E s \in ContentDateStrings : activate_date(s)
    \/ \E d \in Descriptions, m \in Option(Messages) : create_ice(d, m)
    \/ \E sel \in Selections, c \in BOOLEAN : deactivate_ice(sel, c)
    \/ \E sel \in Selections, d \in Option(Descriptions),
          m \in Option(Option(Messages)), t \in Option(Option(TypedEmails)) :
           edit_ice(sel, d, m, t)
    \/ list_ices
    \/ \E sel \in Selections, c \in BOOLEAN : remove_ice(sel, c)
    \/ \E sel \in Selections : show_ice(sel)

SpecContent == Init /\ [][NextContent]_vars

\* SpecIce: the public mutators of Ice called one at a time on a record that
\* starts with active true exactly when send_date is present.
Consistent(ice) == ice.active <=> is_some(ice.send_date)

EmailLists == { <<>>, << <<"a">>, <<"b">> >> }

Dates == Option(0..(MaxClock + 1))

IceValues ==
    [ description : Descriptions,
      message     : Messages,
      emails      : EmailLists,
      active      : BOOLEAN,
      send_date   : Dates ]

InitIce ==
    /\ file = NoFile
    /\ clock = 0
    /\ pc = "idle"
    /\ ices = <<>>
    /\ selected = 0
    /\ edited = NoIce
    /\ today = 0
    /\ out = Line("")
    /\ wrote = FALSE
    /\ env = Sound
    /\ sent = {}
    /\ other = None
    /\ subject \in { i \in IceValues : Consistent(i) }
    /\ before = subject
    /\ called = NoCall

Calls(name, argument, result) ==
    /\ before' = subject
    /\ subject' = result
    /\ called' = <<name, argument>>
    /\ UNCHANGED <<cmdVars, worldVars>>

call_set_description(d) == Calls("set_description", d, set_description(subject, d))

call_set_message(m) == Calls("set_message", m, set_message(subject, m))

call_set_emails(l) == Calls("set_emails", l, set_emails(subject, l))

call_set_date(d) == Calls("set_date", d, set_date(subject, d))

call_set_status(b) == Calls("set_status", b, set_status(subject, b))

NextIce ==
    \/ \E d \in Descriptions : call_set_description(d)
    \/ \E m \in Messages : call_set_message(m)
    \/ \E l \in EmailLists : call_set_emails(l)
    \/ \E d \in Dates : call_set_date(d)
    \/ \E b \in BOOLEAN : call_set_status(b)

SpecIce == InitIce /\ [][NextIce]_vars

\* SpecFaults: the commands on a file system that can start to fail, and
\* recover, between any two steps.  The clock stands still and edit_ice is
\* asked for the description only.
Environments == [can_open : BOOLEAN, can_create : BOOLEAN, can_write : BOOLEAN]

\* The outcome of the next File::open, File::create or to_writer changes
\* (a permission, a directory, the space left on the disk).
file_system_changes(e) ==
    /\ e # env
    /\ env' = e
    /\ UNCHANGED <<cmdVars, iceVars, sent, other>>

NextFaults ==
    \/ \E e \in Environments : file_system_changes(e)
    \/ \E sel \in Selections : activate_ice(sel)
    \/ \E s \in ContentDateStrings : activate_date(s)
    \/ \E d \in Descriptions, m \in Option(Messages) : create_ice(d, m)
    \/ \E sel \in Selections, c \in BOOLEAN : deactivate_ice(sel, c)
    \/ \E sel \in Selections, d \in Option(Descriptions) :
           edit_ice(sel, d, None, None)
    \/ list_ices
    \/ \E sel \in Selections, c \in BOOLEAN : remove_ice(sel, c)
    \/ \E sel \in Selections : show_ice(sel)

SpecFaults == Init /\ [][NextFaults]_vars

\* SpecDelivery: activation, deactivation and removal with the clock running
\* and the daemon at work.  commands::check and commands::daemon are called
\* by main but are not part of the sources; check is taken from the crate
\* documentation: it looks through the list of mails and sends any pending
\* mail, a mail being pending when it is Active and its date has come.  It
\* reads the store and does not change it.  A mail is known by its
\* description and send date; descriptions are not edited here.
Pending(ice) ==
    /\ get_status(ice)
    /\ is_some(ice.send_date)
    /\ unwrap(ice.send_date) <= clock

\* Mutant of check: a mail is sent only after the minute of its date.
check_late ==
    /\ get_ices(file).ok
    /\ sent' = sent \cup
           { <<get_description(i), unwrap(i.send_date)>> :
               i \in { get_ices(file).v[k] : k \in
                          { n \in 1..Len(get_ices(file).v) :
                              /\ Pending(get_ices(file).v[n])
                              /\ unwrap(get_ices(file).v[n].send_date) < clock } } }
    /\ UNCHANGED <<cmdVars, iceVars, env, other>>

check ==
    /\ get_ices(file).ok
    /\ sent' = sent \cup
           { <<get_description(i), unwrap(i.send_date)>> :
               i \in { get_ices(file).v[k] : k \in
                          { n \in 1..Len(get_ices(file).v) :
                              Pending(get_ices(file).v[n]) } } }
    /\ UNCHANGED <<cmdVars, iceVars, env, other>>

\* The dates typed here are well formed and are minutes the clock reaches;
\* the editor always hands back a message and confirmations are given.
DeliveryDateStrings == { DateText(m) : m \in 0..MaxClock }

NextDelivery ==
    \/ Tick
    \/ check
    \/ \E sel \in Selections : activate_ice(sel)
    \/ \E s \in DeliveryDateStrings : activate_date(s)
    \/ \E d \in Descriptions, m \in Messages : create_ice(d, Some(m))
    \/ \E sel \in Selections : deactivate_ice(sel, TRUE)
    \/ \E sel \in Selections : remove_ice(sel, TRUE)

\* Time passes, and the daemon runs check again and again.
SpecDelivery ==
    Init /\ [][NextDelivery]_vars /\ WF_vars(Tick) /\ WF_vars(check)

\* SpecRace: two invocations of the program on one store.  The first is the
\* terminal of the other specifications; the second, on a terminal of its
\* own, loads the collection, waits at its prompts, and saves its change
\* (a removal or a deactivation) at any later moment.  The clock stands
\* still.
\* The second invocation: get_ices, and the collection is not empty.
elsewhere_loads ==
    /\ other = None
    /\ get_ices(file).ok
    /\ get_ices(file).v # <<>>
    /\ other' = Some(get_ices(file).v)
    /\ UNCHANGED <<cmdVars, iceVars, env, sent>>

\* The second invocation is remove_ice: confirmed, it saves what it loaded
\* without the selected record.
elsewhere_remove_ice(sel) ==
    /\ is_some(other)
    /\ sel \in 1..Len(unwrap(other))
    /\ other' = None
    /\ UNCHANGED <<clock, pc, ices, selected, edited, today, out, wrote>>
    /\ UNCHANGED <<iceVars, env, sent>>
    /\ file' = write_ices(remove(unwrap(other), sel))

\* The second invocation is deactivate_ice on an Active record: confirmed,
\* it saves what it loaded with the selected record disarmed.
elsewhere_deactivate_ice(sel) ==
    /\ is_some(other)
    /\ sel \in 1..Len(unwrap(other))
    /\ get_status(unwrap(other)[sel])
    /\ other' = None
    /\ UNCHANGED <<clock, pc, ices, selected, edited, today, out, wrote>>
    /\ UNCHANGED <<iceVars, env, sent>>
    /\ file' = write_ices(replace(unwrap(other), sel,
                  set_status(set_date(unwrap(other)[sel], None), FALSE)))

NextRace ==
    \/ elsewhere_loads
    \/ \E sel \in Selections : elsewhere_remove_ice(sel)
    \/ \E sel \in Selections : elsewhere_deactivate_ice(sel)
    \/ \E sel \in Selections : activate_ice(sel)
    \/ \E s \in ContentDateStrings : activate_date(s)
    \/ \E d \in Descriptions, m \in Messages : create_ice(d, Some(m))
    \/ \E sel \in Selections : deactivate_ice(sel, TRUE)
    \/ \E sel \in Selections : remove_ice(sel, TRUE)

SpecRace == Init /\ [][NextRace]_vars

\* ------------------------------------------------------------- claims
\* The records of the persisted collection.
Persisted == [i \in 1..Len(file.json) |-> from_json(file.json[i])]

\* C1: every record of the persisted collection has active true if and only
\* if its send_date is present, after any sequence of commands from an absent
\* or empty store.
C1_ActiveIffSendDate ==
    \A i \in 1..Len(Persisted) :
        Persisted[i].active <=> is_some(Persisted[i].send_date)

\* C1 witness: the store holds an Active record with its date beside an
\* Inactive one without.
C1_Witness ==
    /\ pc = "idle"
    /\ Len(Persisted) = 2
    /\ Persisted[1].active /\ is_some(Persisted[1].send_date)
    /\ ~Persisted[2].active /\ is_none(Persisted[2].send_date)

PersistedSelected == Persisted[selected]

C4_AcceptedDateAfterClock ==
    [][ \A s \in DateStrings :
          (activate_date(s) /\ wrote') => datetime_from_str(s).v > clock ]_vars

\* C5: activating an Active record with a date t2 after the command's "now"
\* takes the one answer at the date prompt (no deactivation, no confirmation)
\* and persists the record with active true and send_date t2 in place of the
\* earlier date.
C5_ReactivationOverwrites ==
    [][ \A s \in DateStrings :
          ( /\ activate_date(s)
            /\ edited.active
            /\ datetime_from_str(s).ok
            /\ datetime_from_str(s).v > today )
          => /\ wrote'
             /\ pc' = "idle"
             /\ out' = Line("ICE mail activated")
             /\ Len(file'.json) = Len(ices)
             /\ from_json(file'.json[selected]).active
             /\ from_json(file'.json[selected]).send_date
                    = Some(datetime_from_str(s).v) ]_vars

\* C5 witness: an Active record is at the date prompt and the answer about to
\* be accepted replaces its date with another.
C5_Witness ==
    /\ pc = "activate"
    /\ PersistedSelected.active
    /\ ENABLED ( \E s \in DateStrings :
                   /\ activate_date(s)
                   /\ wrote'
                   /\ from_json(file'.json[selected]).send_date
                          # edited.send_date )

\* C6: a confirmed deactivate of an Active record persists it with active
\* false and no send_date, whatever the date was.
C6_DeactivateClears ==
    [][ \A sel \in Selections :
          ( /\ deactivate_ice(sel, TRUE)
            /\ sel <= Len(Persisted)
            /\ Persisted[sel].active )
          => /\ wrote'
             /\ out' = Line("ICE mail deactivated")
             /\ Len(file'.json) = Len(file.json)
             /\ ~from_json(file'.json[sel]).active
             /\ is_none(from_json(file'.json[sel]).send_date) ]_vars

\* C6 witness: an Active record with a date, whose confirmed deactivation is
\* about to be saved.
C6_Witness ==
    \E sel \in Selections :
        /\ sel <= Len(Persisted)
        /\ Persisted[sel].active
        /\ is_some(Persisted[sel].send_date)
        /\ ENABLED (deactivate_ice(sel, TRUE) /\ wrote')

\* C7: deactivating an Inactive record ends with "That ICE mail is not
\* active", which is not the line of a successful deactivation, whatever the
\* answer to a confirmation would be (none is asked); nothing is written and
\* the store is unchanged, so the same holds when it is repeated.
C7_DeactivateInactiveIsNoOp ==
    [][ \A sel \in Selections, c \in BOOLEAN :
          ( /\ deactivate_ice(sel, c)
            /\ sel <= Len(Persisted)
            /\ ~Persisted[sel].active )
          => /\ out' = Line("That ICE mail is not active")
             /\ out' # Line("ICE mail deactivated")
             /\ ~wrote'
             /\ file' = file
             /\ pc' = "idle"
             /\ deactivate_ice(sel, ~c) ]_vars

\* C7 witness: the not-active line has just been given for an Inactive record
\* and the same deactivation can be run again.
C7_Witness ==
    /\ out = Line("That ICE mail is not active")
    /\ ~wrote
    /\ \E sel \in Selections :
           /\ sel <= Len(Persisted)
           /\ ~Persisted[sel].active
           /\ ENABLED deactivate_ice(sel, TRUE)

\* The answers edit_ice can get.
DescriptionAnswers == Option(Descriptions)
MessageAnswers == Option(Option(Messages))
EmailsAnswers == Option(Option(TypedEmails))

\* The lines edit_ice can end with.
EditLines ==
    { <<"Error: ", "JSON file does not exist">>,
      Line("No ICE mails to show"),
      Line("ICE mail updated") }

\* C8: edit_ice goes through to its save on Inactive and on Active records
\* and, whatever questions are answered and however, the selected record is
\* persisted with the active flag and send_date it was loaded with.  (Written
\* as "the step keeps them, or it is no edit of that record"; a step that
\* ends with none of edit_ice's lines is no edit.)
C8_EditKeepsStatusAndDate ==
    [][ \A sel \in Selections :
          \/ sel > Len(Persisted)
          \/ /\ wrote'
             /\ out' = Line("ICE mail updated")
             /\ Len(file'.json) = Len(file.json)
             /\ from_json(file'.json[sel]).active = Persisted[sel].active
             /\ from_json(file'.json[sel]).send_date
                    = Persisted[sel].send_date
          \/ out' \notin EditLines
          \/ ~ \E d \in DescriptionAnswers, m \in MessageAnswers,
                  t \in EmailsAnswers : edit_ice(sel, d, m, t) ]_vars

\* C8 witness: an Active record without recipients whose edit is about to
\* give it the recipients a and b.
C8_Witness ==
    \E sel \in Selections :
        /\ sel <= Len(Persisted)
        /\ Persisted[sel].active
        /\ Persisted[sel].emails = <<>>
        /\ ENABLED ( /\ edit_ice(sel, None, None, Some(Some(<<"a", ",", " ", "b">>)))
                     /\ from_json(file'.json[sel]).emails = << <<"a">>, <<"b">> >>
                     /\ from_json(file'.json[sel]).active )

\* A step of a command that selects a record: every command but create and list.
SelectingStep ==
    \/ \E sel \in Selections : activate_ice(sel)
    \/ \E sel \in Selections, c \in BOOLEAN : deactivate_ice(sel, c)
    \/ \E sel \in Selections, d \in DescriptionAnswers, m \in MessageAnswers :
           edit_ice(sel, d, m, None)
    \/ \E sel \in Selections, c \in BOOLEAN : remove_ice(sel, c)
    \/ \E sel \in Selections : show_ice(sel)

\* C9: a command that ends without completing its change writes nothing and
\* leaves the store as it was: a declined confirmation in deactivate or
\* remove, a create whose editor returns no message, any command but create
\* on an absent file (which stays absent), any selecting command on an empty
\* collection.
C9_AbortedCommandWritesNothing ==
    [][ ( \/ \E sel \in Selections : deactivate_ice(sel, FALSE)
          \/ \E sel \in Selections : remove_ice(sel, FALSE)
          \/ \E d \in Descriptions : create_ice(d, None)
          \/ ~file.exists /\ (SelectingStep \/ list_ices)
          \/ file.exists /\ file.json = <<>> /\ SelectingStep )
        => /\ ~wrote'
           /\ file' = file
           /\ pc' = "idle" ]_vars

\* C9 witness: a confirmation has just been declined with an Active record in
\* the store.
C9_Witness ==
    /\ out = Line("Operation cancelled")
    /\ ~wrote
    /\ pc = "idle"
    /\ \E i \in 1..Len(Persisted) : Persisted[i].active

\* The collection a command loads, an absent file counting as empty.
LoadedOrEmpty == IF file.exists THEN file.json ELSE <<>>

\* C10: create persists the loaded collection, taken as empty when the file
\* is absent, with one record appended: the given description and message, no
\* recipients, active false, no send_date; the records before it keep place
\* and content.
C10_CreateAppendsOne ==
    [][ \A d \in Descriptions, m \in Messages :
          create_ice(d, Some(m))
          => /\ wrote'
             /\ file'.exists
             /\ Len(file'.json) = Len(LoadedOrEmpty) + 1
             /\ \A i \in 1..Len(LoadedOrEmpty) : file'.json[i] = LoadedOrEmpty[i]
             /\ from_json(file'.json[Len(file'.json)])
                    = [ description |-> d, message |-> m, emails |-> <<>>,
                        active |-> FALSE, send_date |-> None ] ]_vars

\* C10 witness: a record has just been created behind an Active one.
C10_Witness ==
    /\ out = Line("New ICE mail created")
    /\ wrote
    /\ Len(Persisted) = 2
    /\ Persisted[1].active
    /\ Persisted[2] = Ice_new(Persisted[2].description, "Find my safe")

\* A step of a command that loads the store: every command, but a create
\* whose editor returned no message.
LoadingStep ==
    \/ SelectingStep
    \/ list_ices
    \/ \E d \in Descriptions, m \in Messages : create_ice(d, Some(m))

\* C11: a command that loads a store file which exists, can be opened and
\* does not parse gets an error value of its own: it reports an error other
\* than the one of a missing file, does not panic, does not write and leaves
\* the file as it is.
C11_CorruptStoreIsReported ==
    [][ (file.exists /\ ~file.valid /\ env.can_open /\ LoadingStep)
        => /\ out'[1] = "Error: "
           /\ out' # <<"Error: ", "JSON file does not exist">>
           /\ ~wrote'
           /\ file' = file ]_vars

\* C12: no failure of the load or of the save ends a command in a panic.
C12_NoPanic == out # PanicLine

\* C13: whatever a step that calls write_ices leaves in the file is a whole
\* collection: the file is as before, or it holds a complete JSON array.
C13_SaveIsAtomic ==
    [][ wrote' => (file' = file \/ (file'.exists /\ file'.valid)) ]_vars

UpdateLines ==
    { Line("ICE mail activated"), Line("ICE mail deactivated"),
      Line("ICE mail updated") }

\* The persisted collection after the step has the length and order of the
\* one before it and differs from it at index sel at most.
OnlyChanges(sel) ==
    /\ file'.exists
    /\ Len(file'.json) = Len(file.json)
    /\ \A j \in 1..Len(file.json) : j # sel => file'.json[j] = file.json[j]

\* C16: a completed activate, deactivate or edit on the record at index i
\* persists a collection of the same length and order in which every record
\* at another index is as it was.
C16_UpdateChangesOneRecord ==
    [][ /\ \A s \in DateStrings :
              \/ OnlyChanges(selected)
              \/ out' # Line("ICE mail activated")
              \/ ~activate_date(s)
        /\ \A sel \in Selections :
              \/ OnlyChanges(sel)
              \/ out' \notin UpdateLines
              \/ ~ \/ deactivate_ice(sel, TRUE)
                   \/ \E d \in DescriptionAnswers, m \in MessageAnswers :
                         edit_ice(sel, d, m, None) ]_vars

\* C16 witness: the second of two records has just been activated behind an
\* Active one, and an edit of the first is possible that changes it.
C16_Witness ==
    /\ out = Line("ICE mail activated")
    /\ wrote
    /\ Len(Persisted) = 2
    /\ Persisted[1].active
    /\ Persisted[2].active
    /\ Persisted[1].description # Persisted[2].description
    /\ ENABLED (edit_ice(1, Some(Persisted[2].description), None, None)
                /\ file' # file)

\* C17: a confirmed remove at index i, of an Active or an Inactive record,
\* persists the loaded collection without its element i: one record fewer,
\* the records before i in place, the records after i moved up by one.
C17_RemoveDeletesOne ==
    [][ \A sel \in Selections :
          (sel <= Len(file.json) /\ remove_ice(sel, TRUE))
          => /\ wrote'
             /\ file'.exists
             /\ Len(file'.json) = Len(file.json) - 1
             /\ \A j \in 1..Len(file'.json) :
                    file'.json[j] = IF j < sel THEN file.json[j]
                                              ELSE file.json[j + 1] ]_vars

\* C17 witness: two different records, the first of them Active, and the
\* first can be removed, which leaves the second alone.
C17_Witness ==
    /\ pc = "idle"
    /\ Len(Persisted) = 2
    /\ Persisted[1].active
    /\ ~Persisted[2].active
    /\ Persisted[1].description # Persisted[2].description
    /\ ENABLED (remove_ice(1, TRUE) /\ Len(file'.json) = 1
                /\ file'.json[1] = file.json[2])

\* What the message question of an edit that changes nothing is answered
\* with: declined, or accepted with the editor handing back no message.
NoMessageAnswers == { None, Some(None) }

\* C18 as stated: an edit in which all three questions are declined, or the
\* editor gives no message, performs no write.
C18_UnchangedEditWritesNothing ==
    [][ \A sel \in Selections, m \in NoMessageAnswers :
          (sel <= Len(file.json) /\ edit_ice(sel, None, m, None))
          => ~wrote' ]_vars

\* C18: an edit in which nothing is changed still saves: it calls write_ices
\* with the collection as loaded, reports the update, and the file holds
\* after it what it held before.
C18_UnchangedEditRewritesSame ==
    [][ \A sel \in Selections, m \in NoMessageAnswers :
          \/ (wrote' /\ out' = Line("ICE mail updated") /\ file' = file)
          \/ sel > Len(file.json)
          \/ out' \notin EditLines
          \/ ~edit_ice(sel, None, m, None) ]_vars

\* C18 witness: an Active record with two recipients can be edited with the
\* description and recipients questions declined and no message from the
\* editor, and the edit writes.
C18_Witness ==
    /\ pc = "idle"
    /\ Len(Persisted) = 2
    /\ Persisted[1].active
    /\ Persisted[1].emails = << <<"a">>, <<"b">> >>
    /\ ENABLED (edit_ice(1, None, Some(None), None) /\ wrote' /\ file' = file)

\* C19: an edit that accepts the offered default at the recipients prompt
\* (the current recipients joined by ",") leaves the stored recipients of the
\* record as they were, whatever the list, the empty one included.
C19_DefaultRecipientsRoundTrip ==
    [][ \A sel \in Selections :
          (sel <= Len(file.json) /\ edit_ice(sel, None, None, Some(None)))
          => from_json(file'.json[sel]).emails = Persisted[sel].emails ]_vars

\* What an answer to the date prompt that is not accepted leaves alone: the
\* command goes on waiting at the prompt with the same record, nothing is
\* written, the file is as it was.
PromptsAgain ==
    /\ pc' = "activate"
    /\ ~wrote'
    /\ file' = file
    /\ <<ices', selected', edited', today'>> = <<ices, selected, edited, today>>

Armed(d, t) ==
    \E i \in 1..Len(Persisted) :
        /\ Persisted[i].active
        /\ Persisted[i].description = d
        /\ Persisted[i].send_date = Some(t)

DateSegment(line) == line[4]

\* C21: for every record of the persisted collection, get_status_line has a
\* date segment exactly when the record is active, the segment is the text
\* of the record's send_date and never "Unknown"; and get_date is "Unknown"
\* exactly when send_date is absent.
C21_StatusLineShowsRealDate ==
    \A i \in 1..Len(Persisted) :
        LET ice == Persisted[i] IN
        /\ DateSegment(get_status_line(ice)) # <<>> <=> get_status(ice)
        /\ get_status(ice)
             => /\ is_some(ice.send_date)
                /\ DateSegment(get_status_line(ice))
                       = DateText(unwrap(ice.send_date))
                /\ DateSegment(get_status_line(ice)) # <<"Unknown">>
        /\ get_date(ice) = <<"Unknown">> <=> is_none(ice.send_date)

\* C21 witness: list has just printed the line of an Active record with its
\* date, and the collection also holds an Inactive record.
C21_Witness ==
    /\ pc = "idle"
    /\ Len(Persisted) = 2
    /\ ~Persisted[1].active
    /\ Persisted[2].active
    /\ out = get_status_line(Persisted[2])
    /\ DateSegment(out) = DateText(unwrap(Persisted[2].send_date))
    /\ DateSegment(get_status_line(Persisted[1])) = <<>>

\* How many records of the file f are Active with send_date d.
CountArmed(f, d) ==
    Cardinality({ i \in 1..Len(f.json) :
                    /\ from_json(f.json[i]).active
                    /\ from_json(f.json[i]).send_date = d })

\* C23: an Active record comes into the persisted collection, or gets its
\* send_date, only by an activate whose accepted date is strictly later than
\* today, the clock read when that command started; no other step adds an
\* Active record or changes the date of one.
C23_ArmedAfterCommandStart ==
    [][ IF pc = "activate" /\ wrote'
        THEN /\ from_json(file'.json[selected]).active
             /\ is_some(from_json(file'.json[selected]).send_date)
             /\ unwrap(from_json(file'.json[selected]).send_date) > today
             /\ OnlyChanges(selected)
        ELSE \A d \in Dates : CountArmed(file', d) <= CountArmed(file, d) ]_vars

\* C23 witness: an activate that started in minute 1 is at its prompt, and
\* the date of minute 2 can be typed and is persisted with the record Active.
C23_Witness ==
    /\ pc = "activate"
    /\ today = 1
    /\ ENABLED (activate_date(DateText(2))
                /\ wrote'
                /\ from_json(file'.json[selected]).active
                /\ from_json(file'.json[selected]).send_date = Some(2))

PersistsButAt(list, sel) ==
    /\ file'.exists
    /\ Len(file'.json) = Len(list)
    /\ \A j \in 1..Len(list) : j # sel => from_json(file'.json[j]) = list[j]

\* The file holds after the step the collection list without one record.
PersistsWithoutOne(list) ==
    /\ file'.exists
    /\ Len(file'.json) = Len(list) - 1
    /\ \E sel \in 1..Len(list) :
          \A j \in 1..Len(file'.json) :
              from_json(file'.json[j]) = remove(list, sel)[j]

\* C22: when two invocations have both loaded the store, each save leaves in
\* the file the collection its own invocation has in memory, whatever the
\* file held just before: an activate that ends persists the collection it
\* loaded with its selected record changed, and the second invocation
\* persists the collection it loaded with one record changed or removed.  So
\* the change of the earlier saver is lost and a record it removed is back.
C22_LastWriterWins ==
    [][ /\ (pc = "activate" /\ pc' = "idle")
           => PersistsButAt(ices, selected)
        /\ (is_some(other) /\ other' = None)
           => \/ \E sel \in 1..Len(unwrap(other)) :
                    PersistsButAt(unwrap(other), sel)
              \/ PersistsWithoutOne(unwrap(other)) ]_vars

\* C22 witness: activate loaded two records and is at its prompt; meanwhile
\* the second invocation removed one of them, so the file holds one record;
\* the date of minute 1 can be typed and the file then holds two again.
C22_Witness ==
    /\ pc = "activate"
    /\ Len(ices) = 2
    /\ other = None
    /\ Len(file.json) = 1
    /\ ENABLED (activate_date(DateText(1)) /\ Len(file'.json) = 2)

====
